---- MODULE Spec2Model ----
(***************************************************************************)
(* Alarm evaluation and deduplication engine of the oil & gas IoT service  *)
(* (alarm_processor.py), together with the store (database.py) and the     *)
(* reading producer (sensor_data_collector.py) it works against.           *)
(*                                                                         *)
(* Encoding of the source's values:                                        *)
(*   - measured values are counted in tenths (65.0 is 650), so that        *)
(*     value > high * 1.2 is  tenths > high * 12  and                      *)
(*     value < low * 0.8  is  tenths < low * 8;                            *)
(*   - the clock and the timestamps are counted in steps of                *)
(*     IntervalMinutes minutes;                                            *)
(*   - the severity strings are written "high" (高危), "medium" (中危),    *)
(*     "low" (低危); the acknowledgment strings "unprocessed" (未处理),    *)
(*     "processed" (已处理);                                               *)
(*     the quality flags "abnormal" (异常) and "normal" (正常);            *)
(*   - Python's None is the empty tuple None, a returned value x is        *)
(*     Some(x).                                                            *)
(***************************************************************************)
EXTENDS Integers, Sequences, FiniteSets, Bags, TLC

VARIABLES readings, alarms, now, pc, abnormal_data, idx, ret, quiet_scans, overlap,
          interrupted

vars == <<readings, alarms, now, pc, abnormal_data, idx, ret, quiet_scans, overlap,
         interrupted>>

(* ------------------------------ bounds --------------------------------- *)
MaxReadings == 2
MaxAlarms == 2
MaxTime == 2

(* ------------------------- program constants --------------------------- *)
IntervalMinutes == 5

None == << >>
NoReturn == [op |-> "none", value |-> None]
Some(x) == <<x>>

Evaluators == {1, 2}

alarm_thresholds ==
    (1 :> [high |-> 60, low |-> -10]) @@
    (2 :> [high |-> 8, low |-> 1]) @@
    (3 :> [high |-> 80, low |-> 5]) @@
    (4 :> [high |-> 400])

(* sensor_device rows: device_id -> sensor_type_id.  Device 14 carries a   *)
(* sensor type the threshold table does not know.                          *)
sensor_device == (10 :> 1) @@ (11 :> 2) @@ (12 :> 3) @@ (13 :> 4) @@ (14 :> 5)

Numeric(t) == [numeric |-> TRUE, tenths |-> t]
Malformed == [numeric |-> FALSE, tenths |-> 0]

(* The measured values (in tenths) the rows of a device can carry, by      *)
(* sensor type: the values at and next to each configured bound and at and *)
(* next to the bound times 1.2 (high) or times 0.8 (low).                  *)
ValuesOf(type) ==
    CASE type = 1 -> {-101, -100, -81, -80, 600, 601, 650, 720, 721, 750, 800}
      [] type = 2 -> {5, 7, 8, 9, 10, 80, 81, 96, 97}
      [] type = 3 -> {39, 40, 49, 50, 800, 801, 960, 961}
      [] type = 4 -> {-10, 4000, 4001, 4800, 4801}
      [] OTHER -> {9999}

(* The rows a producer deposits while the service runs.                    *)
ReadingInputs ==
    { [device_id |-> 10, measured_value |-> Numeric(650), data_quality_flag |-> "abnormal"],
      [device_id |-> 10, measured_value |-> Numeric(750), data_quality_flag |-> "abnormal"],
      [device_id |-> 10, measured_value |-> Malformed, data_quality_flag |-> "abnormal"],
      [device_id |-> 11, measured_value |-> Numeric(97), data_quality_flag |-> "normal"] }

(* The rows the store may hold when the service starts: any device with    *)
(* any of its values, flagged abnormal.                                    *)
InitialReadings ==
    { [device_id |-> d, measured_value |-> Numeric(t), data_quality_flag |-> "abnormal"] :
        d \in DOMAIN sensor_device, t \in UNION {ValuesOf(ty) : ty \in 1..5} }

AckStatuses == {"processed", "unprocessed"}
AlarmIds == (1..MaxAlarms) \cup {999}

(* ------------------------------ the store ------------------------------ *)
Row(r, t) ==
    [device_id |-> r.device_id, measured_value |-> r.measured_value,
     timestamp |-> t, data_quality_flag |-> r.data_quality_flag]

RestrictBag(B, S) == [r \in (BagToSet(B) \cap S) |-> B[r]]

RECURSIVE BagPerms(_)
BagPerms(B) ==
    IF BagToSet(B) = {} THEN {<< >>}
    ELSE UNION { { <<r>> \o p : p \in BagPerms(B (-) SetToBag({r})) } : r \in BagToSet(B) }

InWindow(ts, t) == ts * IntervalMinutes >= t * IntervalMinutes - IntervalMinutes

(* the WHERE clause without its data_quality_flag condition                *)
SelectedAnyFlag(r, t) ==
    /\ r.device_id \in DOMAIN sensor_device
    /\ InWindow(r.timestamp, t)

Selected(r, t) ==
    /\ r.device_id \in DOMAIN sensor_device
    /\ InWindow(r.timestamp, t)
    /\ r.data_quality_flag = "abnormal"

OrderedDesc(s) == \A i \in 1..(Len(s) - 1) : s[i].timestamp >= s[i + 1].timestamp

Joined(r) ==
    [device_id |-> r.device_id, sensor_type_id |-> sensor_device[r.device_id],
     measured_value |-> r.measured_value, timestamp |-> r.timestamp,
     data_quality_flag |-> r.data_quality_flag]

(* The results the SELECT of check_and_process_alerts can return: the      *)
(* selected rows newest first; rows of equal timestamp come in any order.  *)
AbnormalDataResults(tbl, t) ==
    { [i \in 1..Len(s) |-> Joined(s[i])] :
        s \in { p \in BagPerms(RestrictBag(tbl, {r \in BagToSet(tbl) : Selected(r, t)})) :
                  OrderedDesc(p) } }

(* SELECT alarm_id FROM alarm_event WHERE device_id = %s AND               *)
(* triggered_timestamp = %s                                                *)
ExistingAlarmsWrongColumn(tbl, device_id, timestamp) ==
    { i \in 1..Len(tbl) :
        tbl[i].alarm_id = device_id /\ tbl[i].triggered_timestamp = timestamp }

ExistingAlarmsLaterOnly(tbl, device_id, timestamp) ==
    { i \in 1..Len(tbl) :
        tbl[i].device_id = device_id /\ tbl[i].triggered_timestamp > timestamp }

ExistingAlarms(tbl, device_id, timestamp) ==
    { i \in 1..Len(tbl) :
        tbl[i].device_id = device_id /\ tbl[i].triggered_timestamp = timestamp }

(* --------------------------- the evaluator ----------------------------- *)
ThresholdsGet(sensor_type_id) ==
    IF sensor_type_id \in DOMAIN alarm_thresholds
    THEN alarm_thresholds[sensor_type_id] ELSE << >>

AboveHighInclusive(value, high) == value >= high * 10
AboveHigh(value, high) == value > high * 10
BelowLow(value, low) == value < low * 10
HighSeverityInclusive(value, high) == IF value >= high * 12 THEN "high" ELSE "medium"
HighSeverity(value, high) == IF value > high * 12 THEN "high" ELSE "medium"
LowSeverityHighMultiplier(value, low) == IF value < low * 12 THEN "high" ELSE "medium"
LowSeverityKeepsDefault(value, low) == IF value < low * 8 THEN "high" ELSE "low"
LowSeverity(value, low) == IF value < low * 8 THEN "high" ELSE "medium"

Evaluate(sensor_type_id, value) ==
    LET thresholds == ThresholdsGet(sensor_type_id) IN
    IF "high" \in DOMAIN thresholds /\ AboveHigh(value, thresholds.high)
    THEN [alarm_type |-> Some([bound |-> "high", threshold |-> thresholds.high]),
          severity |-> HighSeverity(value, thresholds.high)]
    ELSE IF "low" \in DOMAIN thresholds /\ BelowLow(value, thresholds.low)
    THEN [alarm_type |-> Some([bound |-> "low", threshold |-> thresholds.low]),
          severity |-> LowSeverity(value, thresholds.low)]
    ELSE [alarm_type |-> None, severity |-> "low"]

InitialStatusProcessed == "processed"
InitialStatus == "unprocessed"

(* NewAlarm stamped with the store's clock instead of the reading's time   *)
NewAlarmStampedNow(alarm_id, data) ==
    LET value == data.measured_value.tenths
        decision == Evaluate(data.sensor_type_id, value) IN
    [alarm_id |-> alarm_id,
     device_id |-> data.device_id,
     alarm_type |-> decision.alarm_type[1],
     triggered_timestamp |-> now,
     severity_level |-> decision.severity,
     acknowledgment_status |-> InitialStatus,
     alarm_message |-> [value |-> value, alarm_type |-> decision.alarm_type[1]]]

NewAlarm(alarm_id, data) ==
    LET value == data.measured_value.tenths
        decision == Evaluate(data.sensor_type_id, value) IN
    [alarm_id |-> alarm_id,
     device_id |-> data.device_id,
     alarm_type |-> decision.alarm_type[1],
     triggered_timestamp |-> data.timestamp,
     severity_level |-> decision.severity,
     acknowledgment_status |-> InitialStatus,
     alarm_message |-> [value |-> value, alarm_type |-> decision.alarm_type[1]]]

(* ------------------------- query / ack service ------------------------- *)
SeverityRank(severity_level) ==
    CASE severity_level = "high" -> 1
      [] severity_level = "medium" -> 2
      [] severity_level = "low" -> 3
      [] OTHER -> 0

BeforeOldestFirst(a, b) ==
    \/ SeverityRank(a.severity_level) < SeverityRank(b.severity_level)
    \/ /\ SeverityRank(a.severity_level) = SeverityRank(b.severity_level)
       /\ a.triggered_timestamp <= b.triggered_timestamp

Before(a, b) ==
    \/ SeverityRank(a.severity_level) < SeverityRank(b.severity_level)
    \/ /\ SeverityRank(a.severity_level) = SeverityRank(b.severity_level)
       /\ a.triggered_timestamp >= b.triggered_timestamp

OpenStatus == "unprocessed"

OpenAlarms(tbl) ==
    { tbl[i] : i \in { j \in 1..Len(tbl) :
        tbl[j].acknowledgment_status = OpenStatus /\ tbl[j].device_id \in DOMAIN sensor_device } }

RECURSIVE SetPerms(_)
SetPerms(S) ==
    IF S = {} THEN {<< >>}
    ELSE UNION { { <<x>> \o p : p \in SetPerms(S \ {x}) } : x \in S }

(* get_unprocessed_alarms reads the store and changes nothing: the lists   *)
(* the SELECT can return, rows of equal rank and timestamp in any order    *)
UnprocessedResults(tbl) ==
    { s \in SetPerms(OpenAlarms(tbl)) :
        \A i \in 1..(Len(s) - 1) : Before(s[i], s[i + 1]) }

(* an UPDATE without its WHERE clause                                      *)
ChangedRowsAnyId(tbl, alarm_id, status) ==
    { i \in 1..Len(tbl) : tbl[i].acknowledgment_status # status }

MatchedRows(tbl, alarm_id, status) ==
    { i \in 1..Len(tbl) : tbl[i].alarm_id = alarm_id }

(* rows an UPDATE ... WHERE alarm_id = %s changes: MySQL counts a row      *)
(* only when its value differs from the one being set                      *)
ChangedRows(tbl, alarm_id, status) ==
    { i \in 1..Len(tbl) :
        tbl[i].alarm_id = alarm_id /\ tbl[i].acknowledgment_status # status }

(* ------------------------------- state --------------------------------- *)
(* readings       sensor_data_record, a bag of rows                        *)
(* alarms         alarm_event in alarm_id order; alarm_id is the position  *)
(* now            the store's clock, NOW()                                 *)
(* pc             where each evaluator stands: "idle" before its first     *)
(*                scan, "for" at the head of the loop, "create" before the *)
(*                INSERT, "return" / "except" once its scan has ended      *)
(* abnormal_data  the rows the evaluator's running scan fetched            *)
(* idx            the position of the loop in abnormal_data                *)
(* ret            what the last call of the alarm API returned             *)
(* quiet_scans    scans started since sensor_data_record last changed, up  *)
(*                to 2; a history variable only SpecRescan counts          *)
(* overlap        for each evaluator, whether another evaluator's scan has *)
(*                been running at some time during its running scan; a     *)
(*                history variable                                         *)
(* interrupted    None until the process is terminated during a scan, then *)
(*                where the latest terminated scan stood and how many      *)
(*                alarms the table held; a history variable                *)
Start ==
    /\ alarms = << >>
    /\ now = 0
    /\ pc = [e \in Evaluators |-> "idle"]
    /\ abnormal_data = [e \in Evaluators |-> << >>]
    /\ idx = [e \in Evaluators |-> 0]
    /\ ret = NoReturn
    /\ quiet_scans = 0
    /\ overlap = [e \in Evaluators |-> FALSE]
    /\ interrupted = None

(* the service starts on a store that already holds one row               *)
InitStored ==
    /\ readings \in
         { SetToBag({Row(r, 0)}) :
             r \in { x \in InitialReadings :
                       x.measured_value.tenths \in ValuesOf(sensor_device[x.device_id]) } }
    /\ Start

(* the service starts on an empty store                                    *)
Init ==
    /\ readings = EmptyBag
    /\ Start

(* SensorDataCollector._store_sensor_data with timestamp = now             *)
StoreSensorData(r, counted) ==
    /\ BagCardinality(readings) < MaxReadings
    /\ readings' = readings (+) SetToBag({Row(r, now)})
    /\ ret' = NoReturn
    /\ quiet_scans' = IF counted THEN 0 ELSE quiet_scans
    /\ UNCHANGED <<alarms, now, pc, abnormal_data, idx, overlap, interrupted>>

Tick ==
    /\ now < MaxTime
    /\ now' = now + 1
    /\ ret' = NoReturn
    /\ UNCHANGED <<readings, alarms, pc, abnormal_data, idx, quiet_scans, overlap, interrupted>>

Running(e) == pc[e] \in {"for", "create"}

(* check_and_process_alerts, lines 18-33: the SELECT and the empty check   *)
CheckAndProcessAlerts(e, ok, counted) ==
    /\ ~Running(e)
    /\ \E result \in (IF ok THEN AbnormalDataResults(readings, now) ELSE {<< >>}) :
         /\ abnormal_data' = [abnormal_data EXCEPT ![e] = result]
         /\ idx' = [idx EXCEPT ![e] = IF result = << >> THEN 0 ELSE 1]
         /\ pc' = [pc EXCEPT ![e] = IF result = << >> THEN "return" ELSE "for"]
         /\ overlap' = [f \in Evaluators |->
                          IF f = e
                          THEN result # << >> /\ \E g \in Evaluators \ {e} : Running(g)
                          ELSE overlap[f] \/ (result # << >> /\ Running(f))]
    /\ ret' = NoReturn
    /\ quiet_scans' = IF counted /\ quiet_scans < 2 THEN quiet_scans + 1 ELSE quiet_scans
    /\ UNCHANGED <<readings, alarms, now, interrupted>>

(* the for loop takes the next row, or the scan returns                    *)
(* the scan is over and its locals are gone                                *)
Leave(e, how) ==
    /\ pc' = [pc EXCEPT ![e] = how]
    /\ abnormal_data' = [abnormal_data EXCEPT ![e] = << >>]
    /\ idx' = [idx EXCEPT ![e] = 0]
    /\ overlap' = [overlap EXCEPT ![e] = FALSE]

Advance(e) ==
    IF idx[e] + 1 > Len(abnormal_data[e])
    THEN Leave(e, "return")
    ELSE /\ idx' = [idx EXCEPT ![e] = idx[e] + 1]
         /\ pc' = [pc EXCEPT ![e] = "for"]
         /\ abnormal_data' = abnormal_data
         /\ overlap' = overlap

(* an exception leaves the loop for the handler of line 38                 *)
Raise(e) == Leave(e, "except")

(* _process_abnormal_data, lines 43-71: conversion, dedup lookup, decision *)
ProcessAbnormalData(e, ok) ==
    /\ pc[e] = "for"
    /\ LET data == abnormal_data[e][idx[e]] IN
       IF ~data.measured_value.numeric
       THEN /\ Raise(e)
            /\ ret' = NoReturn
       ELSE LET existing == IF ok THEN ExistingAlarms(alarms, data.device_id, data.timestamp)
                                  ELSE {}
                decision == Evaluate(data.sensor_type_id, data.measured_value.tenths) IN
            IF existing # {}
            THEN /\ Advance(e)
                 /\ ret' = NoReturn
            ELSE IF decision.alarm_type = None
            THEN /\ Advance(e)
                 /\ ret' = NoReturn
            ELSE /\ pc' = [pc EXCEPT ![e] = "create"]
                 /\ idx' = idx
                 /\ abnormal_data' = abnormal_data
                 /\ overlap' = overlap
                 /\ ret' = NoReturn
    /\ UNCHANGED <<readings, alarms, now, quiet_scans, interrupted>>

(* _create_alarm_event, lines 82-103: the INSERT and its return value      *)
CreateAlarmEvent(e, ok) ==
    /\ pc[e] = "create"
    /\ ok => Len(alarms) < MaxAlarms
    /\ LET data == abnormal_data[e][idx[e]]
           alarm_id == Len(alarms) + 1 IN
       IF ok
       THEN /\ alarms' = Append(alarms, NewAlarm(alarm_id, data))
            /\ ret' = [op |-> "_create_alarm_event", value |-> Some(alarm_id)]
       ELSE /\ alarms' = alarms
            /\ ret' = [op |-> "_create_alarm_event", value |-> None]
    /\ Advance(e)
    /\ UNCHANGED <<readings, now, quiet_scans, interrupted>>

AcknowledgeAlarm(alarm_id, status, ok) ==
    /\ LET changed == IF ok THEN ChangedRows(alarms, alarm_id, status) ELSE {} IN
         /\ alarms' = [i \in 1..Len(alarms) |->
                         IF i \in changed
                         THEN [alarms[i] EXCEPT !.acknowledgment_status = status]
                         ELSE alarms[i]]
         /\ ret' = [op |-> "acknowledge_alarm",
                    value |-> Some(changed # {})]
    /\ UNCHANGED <<readings, now, pc, abnormal_data, idx, quiet_scans, overlap, interrupted>>

(* the process is terminated while a scan runs; the service that starts   *)
(* again has the state of a fresh AlarmProcessor, the store keeps its rows *)
Terminate(e) ==
    /\ Running(e)
    /\ Leave(e, "idle")
    /\ interrupted' = Some([idx |-> idx[e], alarms |-> Len(alarms)])
    /\ ret' = NoReturn
    /\ UNCHANGED <<readings, alarms, now, quiet_scans>>

(* the alarm table one scan that nothing interrupts makes of tbl when it   *)
(* is handed batch: lines 35-36 over _process_abnormal_data and            *)
(* _create_alarm_event, every store call succeeding                        *)
RECURSIVE ScanFrom(_, _, _)
ScanFrom(tbl, batch, i) ==
    IF i > Len(batch) THEN tbl
    ELSE LET data == batch[i] IN
         IF ~data.measured_value.numeric THEN tbl
         ELSE IF ExistingAlarms(tbl, data.device_id, data.timestamp) # {}
         THEN ScanFrom(tbl, batch, i + 1)
         ELSE IF Evaluate(data.sensor_type_id, data.measured_value.tenths).alarm_type = None
         THEN ScanFrom(tbl, batch, i + 1)
         ELSE ScanFrom(Append(tbl, NewAlarm(Len(tbl) + 1, data)), batch, i + 1)

ScanResult(tbl, batch) == ScanFrom(tbl, batch, 1)

Evaluator == 1

Next ==
    \/ \E r \in ReadingInputs : StoreSensorData(r, FALSE)
    \/ Tick
    \/ CheckAndProcessAlerts(Evaluator, TRUE, FALSE)
    \/ ProcessAbnormalData(Evaluator, TRUE)
    \/ CreateAlarmEvent(Evaluator, TRUE)
    \/ \E alarm_id \in AlarmIds, status \in AckStatuses : AcknowledgeAlarm(alarm_id, status, TRUE)

Spec == Init /\ [][Next]_vars

(* the producer and the scan alone, on a store that holds one row of any   *)
(* device and value                                                        *)
NextEval ==
    \/ \E r \in ReadingInputs : StoreSensorData(r, FALSE)
    \/ Tick
    \/ CheckAndProcessAlerts(Evaluator, TRUE, FALSE)
    \/ ProcessAbnormalData(Evaluator, TRUE)
    \/ CreateAlarmEvent(Evaluator, TRUE)

SpecEval == InitStored /\ [][NextEval]_vars

(* the same steps, with the scans counted that started since               *)
(* sensor_data_record last changed                                         *)
NextRescan ==
    \/ \E r \in ReadingInputs : StoreSensorData(r, TRUE)
    \/ Tick
    \/ CheckAndProcessAlerts(Evaluator, TRUE, TRUE)
    \/ ProcessAbnormalData(Evaluator, TRUE)
    \/ CreateAlarmEvent(Evaluator, TRUE)
    \/ \E alarm_id \in AlarmIds, status \in AckStatuses : AcknowledgeAlarm(alarm_id, status, TRUE)

SpecRescan == Init /\ [][NextRescan]_vars

(* the producer and the scan, with an execute_query that returns None      *)
(* when the connection or the statement fails                              *)
NextFail ==
    \/ \E r \in ReadingInputs : StoreSensorData(r, FALSE)
    \/ Tick
    \/ \E ok \in BOOLEAN : CheckAndProcessAlerts(Evaluator, ok, FALSE)
    \/ \E ok \in BOOLEAN : ProcessAbnormalData(Evaluator, ok)
    \/ \E ok \in BOOLEAN : CreateAlarmEvent(Evaluator, ok)

SpecFail == Init /\ [][NextFail]_vars

(* two evaluator instances against one store, every store call being one  *)
(* step                                                                    *)
NextRace ==
    \/ \E r \in ReadingInputs : StoreSensorData(r, FALSE)
    \/ Tick
    \/ \E e \in Evaluators : CheckAndProcessAlerts(e, TRUE, FALSE)
    \/ \E e \in Evaluators : ProcessAbnormalData(e, TRUE)
    \/ \E e \in Evaluators : CreateAlarmEvent(e, TRUE)

SpecRace == Init /\ [][NextRace]_vars

(* scans that the termination of the process can interrupt, over readings *)
(* that no longer change once the first scan has started                   *)
NextRestart ==
    \/ \E r \in ReadingInputs : quiet_scans = 0 /\ StoreSensorData(r, TRUE)
    \/ quiet_scans = 0 /\ Tick
    \/ CheckAndProcessAlerts(Evaluator, TRUE, TRUE)
    \/ ProcessAbnormalData(Evaluator, TRUE)
    \/ CreateAlarmEvent(Evaluator, TRUE)
    \/ Terminate(Evaluator)

SpecRestart == Init /\ [][NextRestart]_vars

TypeOK ==
    /\ now \in 0..MaxTime
    /\ Len(alarms) <= MaxAlarms
    /\ BagCardinality(readings) <= MaxReadings
    /\ \A e \in Evaluators : pc[e] \in {"idle", "for", "create", "return", "except"}
    /\ overlap \in [Evaluators -> BOOLEAN]

(* ------------------------------ properties ----------------------------- *)
CurrentRow(e) == abnormal_data[e][idx[e]]
ProcessStep(e) == pc[e] = "for" /\ (pc'[e] # "for" \/ idx'[e] # idx[e])
CreateStep(e) == pc[e] = "create" /\ pc'[e] # "create"
SameKey(a, device_id, timestamp) ==
    a.device_id = device_id /\ a.triggered_timestamp = timestamp
NotYetAlarmed(data) ==
    \A i \in 1..Len(alarms) : ~SameKey(alarms[i], data.device_id, data.timestamp)
HasBound(data, bound) ==
    /\ data.measured_value.numeric
    /\ data.sensor_type_id \in DOMAIN alarm_thresholds
    /\ bound \in DOMAIN alarm_thresholds[data.sensor_type_id]
HighOf(data) == alarm_thresholds[data.sensor_type_id].high
LowOf(data) == alarm_thresholds[data.sensor_type_id].low
Tenths(data) == data.measured_value.tenths
LastAlarm(tbl) == tbl[Len(tbl)]

(* C1: with one evaluator and every store call succeeding, the alarm table *)
(* never holds two alarms with the same (device_id, triggered_timestamp).  *)
C1_OneAlarmPerKey ==
    \A i, j \in 1..Len(alarms) :
        SameKey(alarms[i], alarms[j].device_id, alarms[j].triggered_timestamp) => i = j

ViolatingRow(r) ==
    /\ r.data_quality_flag = "abnormal"
    /\ r.measured_value.numeric
    /\ sensor_device[r.device_id] \in DOMAIN alarm_thresholds
    /\ r.measured_value.tenths > 10 * alarm_thresholds[sensor_device[r.device_id]].high

(* a scan fetched two violating rows of one device and one timestamp; it  *)
(* has alarmed the first and stands at the second                          *)
C1_Witness ==
    /\ pc[Evaluator] = "for"
    /\ Len(abnormal_data[Evaluator]) = 2
    /\ idx[Evaluator] = 2
    /\ LET r1 == abnormal_data[Evaluator][1]
           r2 == abnormal_data[Evaluator][2] IN
         /\ r1.device_id = r2.device_id /\ r1.timestamp = r2.timestamp
         /\ ViolatingRow(r1) /\ ViolatingRow(r2)
         /\ Cardinality({ i \in 1..Len(alarms) :
                            SameKey(alarms[i], r1.device_id, r1.timestamp) }) = 1

(* C2: once a scan has run over the readings, a further scan over the same *)
(* unchanged readings inserts no alarm.                                    *)
C2_SecondScanInsertsNothing ==
    [][quiet_scans >= 2 => Len(alarms') = Len(alarms)]_vars

(* C3: a not yet alarmed reading above the high bound of its sensor type   *)
(* gets an alarm naming that bound, of severity high when the value is     *)
(* above 1.2 times the bound and medium otherwise.                         *)
C3_HighBoundSeverity ==
    [][\A e \in Evaluators :
         /\ (ProcessStep(e) /\ HasBound(CurrentRow(e), "high")
                /\ Tenths(CurrentRow(e)) > 10 * HighOf(CurrentRow(e))
                /\ NotYetAlarmed(CurrentRow(e)))
              => pc'[e] = "create"
         /\ (CreateStep(e) /\ HasBound(CurrentRow(e), "high")
                /\ Tenths(CurrentRow(e)) > 10 * HighOf(CurrentRow(e)))
              => /\ Len(alarms') = Len(alarms) + 1
                 /\ LastAlarm(alarms').alarm_type =
                      [bound |-> "high", threshold |-> HighOf(CurrentRow(e))]
                 /\ LastAlarm(alarms').severity_level =
                      IF Tenths(CurrentRow(e)) > 12 * HighOf(CurrentRow(e))
                      THEN "high" ELSE "medium"
      ]_vars

(* temperature 65.0 alarmed medium and temperature 75.0 alarmed high       *)
C3_Witness ==
    \E i, j \in 1..Len(alarms) :
        /\ alarms[i].alarm_message.value = 650
        /\ alarms[i].alarm_type = [bound |-> "high", threshold |-> 60]
        /\ alarms[i].severity_level = "medium"
        /\ alarms[j].alarm_message.value = 750
        /\ alarms[j].alarm_type = [bound |-> "high", threshold |-> 60]
        /\ alarms[j].severity_level = "high"

(* C4 as stated: every not yet alarmed reading below 0.8 times the low     *)
(* bound of its sensor type gets an alarm of severity high, and every      *)
(* alarm for a value from 0.8 times the low bound up to the low bound is   *)
(* of severity medium.                                                     *)
C4_LowBoundMirrorsHigh ==
    [][\A e \in Evaluators :
         /\ (ProcessStep(e) /\ HasBound(CurrentRow(e), "low")
                /\ Tenths(CurrentRow(e)) < 8 * LowOf(CurrentRow(e))
                /\ NotYetAlarmed(CurrentRow(e)))
              => pc'[e] = "create"
         /\ (CreateStep(e) /\ HasBound(CurrentRow(e), "low")
                /\ Tenths(CurrentRow(e)) < 8 * LowOf(CurrentRow(e)))
              => /\ Len(alarms') = Len(alarms) + 1
                 /\ LastAlarm(alarms').severity_level = "high"
      ]_vars

(* C4 amended: every not yet alarmed reading below the low bound of its    *)
(* sensor type gets an alarm naming that bound, of severity high when the  *)
(* value is also below 0.8 times the bound and medium otherwise.           *)
C4_LowBoundSeverity ==
    [][\A e \in Evaluators :
         /\ (ProcessStep(e) /\ HasBound(CurrentRow(e), "low")
                /\ Tenths(CurrentRow(e)) < 10 * LowOf(CurrentRow(e))
                /\ NotYetAlarmed(CurrentRow(e)))
              => pc'[e] = "create"
         /\ (CreateStep(e) /\ HasBound(CurrentRow(e), "low")
                /\ Tenths(CurrentRow(e)) < 10 * LowOf(CurrentRow(e)))
              => /\ Len(alarms') = Len(alarms) + 1
                 /\ LastAlarm(alarms').alarm_type =
                      [bound |-> "low", threshold |-> LowOf(CurrentRow(e))]
                 /\ LastAlarm(alarms').severity_level =
                      IF Tenths(CurrentRow(e)) < 8 * LowOf(CurrentRow(e))
                      THEN "high" ELSE "medium"
      ]_vars

(* pressure 0.5 alarmed high against the low bound 1                       *)
C4_Witness ==
    \E i \in 1..Len(alarms) :
        /\ alarms[i].device_id = 11
        /\ alarms[i].alarm_message.value = 5
        /\ alarms[i].alarm_type = [bound |-> "low", threshold |-> 1]
        /\ alarms[i].severity_level = "high"

Violates(data) ==
    /\ data.measured_value.numeric
    /\ data.sensor_type_id \in DOMAIN alarm_thresholds
    /\ \/ HasBound(data, "high") /\ Tenths(data) > 10 * HighOf(data)
       \/ HasBound(data, "low") /\ Tenths(data) < 10 * LowOf(data)

(* C5: a scan decides for an alarm, and a row is added to the alarm table, *)
(* only for a reading whose sensor type has a threshold entry and whose    *)
(* value is strictly above its high bound or strictly below its low bound. *)
C5_OnlyViolationsAlarm ==
    [][/\ \A e \in Evaluators :
            (pc[e] = "for" /\ pc'[e] = "create") => Violates(CurrentRow(e))
       /\ Len(alarms') > Len(alarms)
            => \E e \in Evaluators : CreateStep(e) /\ Violates(CurrentRow(e))
       /\ Len(alarms') >= Len(alarms)
      ]_vars

(* a scan over a table whose only row is of an unknown sensor type has    *)
(* returned and there is no alarm                                          *)
C5_Witness ==
    /\ pc[Evaluator] = "return"
    /\ now = 0
    /\ BagCardinality(readings) = 1
    /\ \E r \in BagToSet(readings) :
         /\ r.data_quality_flag = "abnormal"
         /\ sensor_device[r.device_id] \notin DOMAIN alarm_thresholds
    /\ alarms = << >>

(* C6: get_unprocessed_alarms returns only unprocessed alarms, high before *)
(* medium before low, and within one severity later timestamps first.      *)
C6_UnprocessedOrdering ==
    \A s \in UnprocessedResults(alarms) :
        /\ \A i \in 1..Len(s) : s[i].acknowledgment_status = "unprocessed"
        /\ \A i, j \in 1..Len(s) :
             i < j =>
               /\ s[j].severity_level = "high" => s[i].severity_level = "high"
               /\ s[j].severity_level = "medium" => s[i].severity_level \in {"high", "medium"}
               /\ s[i].severity_level = s[j].severity_level
                    => s[i].triggered_timestamp >= s[j].triggered_timestamp

(* of two open alarms the older high one is listed before the newer       *)
(* medium one                                                              *)
C6_Witness ==
    \E s \in UnprocessedResults(alarms) :
        /\ Len(s) = 2
        /\ s[1].severity_level = "high" /\ s[2].severity_level = "medium"
        /\ s[1].triggered_timestamp < s[2].triggered_timestamp

(* C7: acknowledge_alarm returns true exactly when it changed a stored     *)
(* row; for an alarm_id that does not exist it returns false and changes   *)
(* nothing; when it returns true the alarm of that id has the status.      *)
C7_AcknowledgeResult ==
    [][\A alarm_id \in AlarmIds, status \in AckStatuses :
         AcknowledgeAlarm(alarm_id, status, TRUE) =>
           /\ ret'.op = "acknowledge_alarm"
           /\ (ret'.value = Some(TRUE)) <=> (alarms' # alarms)
           /\ (\A i \in 1..Len(alarms) : alarms[i].alarm_id # alarm_id)
                => (ret'.value = Some(FALSE) /\ alarms' = alarms)
           /\ (ret'.value = Some(TRUE))
                => \E i \in 1..Len(alarms') :
                     /\ alarms'[i].alarm_id = alarm_id
                     /\ alarms'[i].acknowledgment_status = status
      ]_vars

(* an acknowledgment that returned true on a table holding a processed     *)
(* alarm                                                                   *)
C7_Witness ==
    /\ ret = [op |-> "acknowledge_alarm", value |-> Some(TRUE)]
    /\ \E i \in 1..Len(alarms) : alarms[i].acknowledgment_status = "processed"

(* C8: an alarm a scan inserts is unprocessed and carries the device_id    *)
(* and timestamp of its reading; _create_alarm_event returns the new       *)
(* alarm's id when a row was inserted and None when none was.              *)
C8_CreatedAlarm ==
    [][\A e \in Evaluators :
         CreateStep(e) =>
           /\ ret'.op = "_create_alarm_event"
           /\ IF Len(alarms') = Len(alarms) + 1
              THEN /\ LastAlarm(alarms').acknowledgment_status = "unprocessed"
                   /\ LastAlarm(alarms').device_id = CurrentRow(e).device_id
                   /\ LastAlarm(alarms').triggered_timestamp = CurrentRow(e).timestamp
                   /\ ret'.value = Some(LastAlarm(alarms').alarm_id)
                   /\ \A i \in 1..Len(alarms) :
                        /\ alarms'[i] = alarms[i]
                        /\ alarms[i].alarm_id # LastAlarm(alarms').alarm_id
              ELSE /\ alarms' = alarms
                   /\ ret'.value = None
      ]_vars

(* an insert that returned the id of an unprocessed alarm                  *)
C8_Witness ==
    /\ ret.op = "_create_alarm_event"
    /\ ret.value # None
    /\ alarms[ret.value[1]].alarm_id = ret.value[1]
    /\ alarms[ret.value[1]].acknowledgment_status = "unprocessed"

(* C9: a scan ends only after the last row of its batch, also when a row  *)
(* before it has failed.                                                   *)
C9_BadRowDoesNotAbort ==
    [][\A e \in Evaluators :
         (pc[e] \in {"for", "create"} /\ pc'[e] \in {"return", "except"})
           => idx[e] = Len(abnormal_data[e])
      ]_vars

(* C10: with store calls that may fail, the alarm table still has as many  *)
(* (device_id, triggered_timestamp) keys as it has rows.                   *)
C10_NoDuplicateUnderFailure ==
    Cardinality({ <<alarms[i].device_id, alarms[i].triggered_timestamp>> :
                    i \in 1..Len(alarms) }) = Len(alarms)

DuplicateKey(tbl) ==
    \E i, j \in 1..Len(tbl) :
        i # j /\ SameKey(tbl[i], tbl[j].device_id, tbl[j].triggered_timestamp)

(* C11: with two evaluators running against one store, an alarm whose      *)
(* (device_id, triggered_timestamp) is already in the table is inserted    *)
(* only by a scan that another evaluator's scan has overlapped; a scan no  *)
(* other scan overlaps never inserts a duplicate.                          *)
C11_DuplicateOnlyWhenOverlapping ==
    [][\A e \in Evaluators :
         (CreateStep(e) /\ Len(alarms') = Len(alarms) + 1
            /\ \E i \in 1..Len(alarms) :
                 SameKey(alarms[i], LastAlarm(alarms').device_id,
                         LastAlarm(alarms').triggered_timestamp))
           => overlap[e]
      ]_vars

(* both evaluators passed the lookup for one reading before either         *)
(* inserted, and both have inserted: two alarms share one key              *)
C11_Witness ==
    /\ DuplicateKey(alarms)
    /\ BagCardinality(readings) = 1
    /\ \A e \in Evaluators : pc[e] = "return"

(* C12: a store call of a scan that fails ends the scan: after a failed    *)
(* dedup lookup or a failed INSERT the scan processes no further reading   *)
(* and performs no INSERT.                                                 *)
C12_StoreFailureAbortsScan ==
    [][\A e \in Evaluators :
         (ProcessAbnormalData(e, FALSE) \/ CreateAlarmEvent(e, FALSE))
           => pc'[e] \notin {"for", "create"}
      ]_vars

ScanEnds(e) == pc'[e] \in {"return", "except"} /\ pc'[e] # pc[e]

(* C13: whenever a scan ends, also after scans over the same readings that *)
(* the termination of the process interrupted at any row, the alarm table  *)
(* is one that a single uninterrupted scan over these readings makes of    *)
(* the empty table, and no two of its alarms share a (device_id,           *)
(* triggered_timestamp); a terminated evaluator keeps nothing of its scan. *)
C13_RestartSafe ==
    [][/\ \A e \in Evaluators :
            ScanEnds(e) =>
              /\ alarms' \in { ScanResult(<< >>, b) : b \in AbnormalDataResults(readings, now) }
              /\ ~DuplicateKey(alarms')
       /\ \A e \in Evaluators :
            Terminate(e) => (pc'[e] = "idle" /\ abnormal_data'[e] = << >> /\ idx'[e] = 0)
      ]_vars

(* a scan was terminated at its second row after it had inserted an alarm, *)
(* and a later scan over the same readings has returned with two alarms    *)
C13_Witness ==
    /\ interrupted = Some([idx |-> 2, alarms |-> 1])
    /\ pc[Evaluator] = "return"
    /\ Len(alarms) = 2

ScanStep(e) == pc'[e] # pc[e] \/ idx'[e] # idx[e]

(* C14: no step removes an alarm; a step of a scan leaves every stored     *)
(* alarm as it is and at most adds a row; a stored alarm changes only in   *)
(* its acknowledgment_status, and only by acknowledge_alarm called with    *)
(* its alarm_id, which adds no row.                                        *)
C14_AlarmsFrame ==
    [][/\ Len(alarms') >= Len(alarms)
       /\ \A i \in 1..Len(alarms) :
            /\ alarms'[i] =
                 [alarms[i] EXCEPT !.acknowledgment_status = alarms'[i].acknowledgment_status]
            /\ alarms'[i] # alarms[i] =>
                 /\ Len(alarms') = Len(alarms)
                 /\ ret'.op = "acknowledge_alarm"
                 /\ AcknowledgeAlarm(alarms[i].alarm_id, alarms'[i].acknowledgment_status, TRUE)
       /\ ret'.op = "acknowledge_alarm" =>
            \A alarm_id \in AlarmIds, status \in AckStatuses :
               AcknowledgeAlarm(alarm_id, status, TRUE) =>
                 \A i \in 1..Len(alarms) :
                    alarms[i].alarm_id # alarm_id => alarms'[i] = alarms[i]
       /\ \A e \in Evaluators :
            ScanStep(e) => \A i \in 1..Len(alarms) : alarms'[i] = alarms[i]
      ]_vars

(* of two stored alarms the first has been acknowledged and the second is  *)
(* as the scan inserted it                                                 *)
C14_Witness ==
    /\ Len(alarms) = 2
    /\ ret = [op |-> "acknowledge_alarm", value |-> Some(TRUE)]
    /\ alarms[1].acknowledgment_status = "processed"
    /\ alarms[2].acknowledgment_status = "unprocessed"
    /\ alarms[1].device_id = 10 /\ alarms[2].device_id = 10

(* C15: every stored alarm is of severity medium or high; the severity    *)
(* low that _process_abnormal_data starts from is never stored.            *)
C15_NoLowSeverity ==
    \A i \in 1..Len(alarms) : alarms[i].severity_level \in {"medium", "high"}

(* an alarm for a value between 0.8 times the low bound and the low bound  *)
(* is stored as medium                                                     *)
C15_Witness ==
    \E i \in 1..Len(alarms) :
        /\ alarms[i].alarm_type.bound = "low"
        /\ alarms[i].alarm_message.value >= 8 * alarms[i].alarm_type.threshold
        /\ alarms[i].severity_level = "medium"

HasAlarm(tbl, device_id, timestamp) ==
    \E i \in 1..Len(tbl) : SameKey(tbl[i], device_id, timestamp)

(* C16: when a scan returns after the last row of its batch, every row of  *)
(* the batch whose value violates a bound of its sensor type has an alarm  *)
(* with its (device_id, timestamp); the batch a scan fetches holds only    *)
(* rows flagged abnormal that are at most 5 minutes old, and every alarm   *)
(* inserted is for a row of the batch, so a reading flagged normal or      *)
(* older than 5 minutes is neither examined nor alarmed.                   *)
C16_CompletedScanCovers ==
    [][\A e \in Evaluators :
         /\ (Running(e) /\ pc'[e] = "return") =>
               \A k \in 1..Len(abnormal_data[e]) :
                  Violates(abnormal_data[e][k]) =>
                    HasAlarm(alarms', abnormal_data[e][k].device_id,
                             abnormal_data[e][k].timestamp)
         /\ (~Running(e) /\ ScanStep(e)) =>
               \A k \in 1..Len(abnormal_data'[e]) :
                  /\ abnormal_data'[e][k].data_quality_flag = "abnormal"
                  /\ abnormal_data'[e][k].timestamp * IntervalMinutes
                       >= now * IntervalMinutes - 5
         /\ Len(alarms') > Len(alarms) =>
               /\ CreateStep(Evaluator)
               /\ CurrentRow(Evaluator).data_quality_flag = "abnormal"
               /\ SameKey(LastAlarm(alarms'), CurrentRow(Evaluator).device_id,
                          CurrentRow(Evaluator).timestamp)
      ]_vars

(* a scan over unchanged readings has returned: the violating reading it   *)
(* fetched has its alarm, and a reading with a violating value that is     *)
(* flagged normal or is older than 5 minutes has none                      *)
C16_Witness ==
    /\ quiet_scans >= 1
    /\ pc[Evaluator] = "return"
    /\ \E r \in BagToSet(readings) :
         /\ Selected(r, now) /\ Violates(Joined(r))
         /\ HasAlarm(alarms, r.device_id, r.timestamp)
    /\ \E r \in BagToSet(readings) :
         /\ ~Selected(r, now) /\ Violates(Joined(r))
         /\ ~HasAlarm(alarms, r.device_id, r.timestamp)

====
